---- MODULE Spec2Model ----
(***************************************************************************)
(* The market-data proxy servers of the trading dashboard.                 *)
(*                                                                         *)
(* Three backend servers answer /api/price/:symbol and /api/klines/:symbol *)
(* by trying a fixed chain of external providers one after the other:      *)
(*   "axios"  src/server.js          Binance -> CoinGecko, axios client    *)
(*   "fetch"  src/unnamed/part_000   Binance -> CoinGecko, fetchWithTimeout*)
(*   "multi"  src/unnamed/part_002   Binance -> Binance US -> CryptoCompare*)
(*                                   -> (CoinCap) -> CoinGecko, axios      *)
(* One behaviour of Spec is one request to one endpoint of one server.     *)
(* A JavaScript handler runs without interruption between two awaits, so   *)
(* every action is one event of the environment (the request arriving, a   *)
(* reply, a timer, the clock) followed by the handler's code up to its     *)
(* next await.                                                             *)
(***************************************************************************)
EXTENDS Integers, Sequences, FiniteSets, TLC

\* ------------------------------------------------------------------ bounds

\* The per-attempt timeout, in clock ticks (15000, 10000 and 8000 ms in the
\* three servers; only "before or after the deadline" matters here).
TimeoutTicks == 2

\* How many ticks past the deadline the clock is followed for a call that
\* nothing aborts.
OverrunTicks == 1

\* ----------------------------------------------------------------- strings

\* A string is a sequence of one-character strings, so that toUpperCase,
\* toLowerCase and replace are computed rather than assumed.
LowerAlpha ==
  <<"a","b","c","d","e","f","g","h","i","j","k","l","m",
    "n","o","p","q","r","s","t","u","v","w","x","y","z">>

UpperAlpha ==
  <<"A","B","C","D","E","F","G","H","I","J","K","L","M",
    "N","O","P","Q","R","S","T","U","V","W","X","Y","Z">>

UpperChar(c) ==
  IF \E i \in 1..26 : LowerAlpha[i] = c
    THEN UpperAlpha[CHOOSE i \in 1..26 : LowerAlpha[i] = c]
    ELSE c

LowerChar(c) ==
  IF \E i \in 1..26 : UpperAlpha[i] = c
    THEN LowerAlpha[CHOOSE i \in 1..26 : UpperAlpha[i] = c]
    ELSE c

\* String.prototype.toUpperCase / toLowerCase
toUpperCase(s) == [i \in 1..Len(s) |-> UpperChar(s[i])]

toLowerCase(s) == [i \in 1..Len(s) |-> LowerChar(s[i])]

\* The positions at which pat occurs in s.
Occurrences(s, pat) ==
  { i \in 1..(Len(s) - Len(pat) + 1) : SubSeq(s, i, i + Len(pat) - 1) = pat }

\* String.prototype.replace(pat, '') with a string pattern: the first
\* occurrence only is removed.
replaceFirst(s, pat) ==
  IF Occurrences(s, pat) = {}
    THEN s
    ELSE LET i == CHOOSE k \in Occurrences(s, pat) :
                    \A j \in Occurrences(s, pat) : k <= j
         IN  SubSeq(s, 1, i - 1) \o SubSeq(s, i + Len(pat), Len(s))

usdt == <<"u","s","d","t">>

NEARUSDT == <<"N","E","A","R","U","S","D","T">>

BTCUSDT == <<"B","T","C","U","S","D","T">>

SOLUSDT == <<"S","O","L","U","S","D","T">>

ETHUSDT == <<"E","T","H","U","S","D","T">>

\* ------------------------------------------------------------ symbol map

\* SYMBOL_MAP of the two-provider servers (binance and gecko tokens only;
\* the other two fields are never read there).
SYMBOL_MAP_2 ==
  [s \in {NEARUSDT, BTCUSDT, SOLUSDT, ETHUSDT} |->
     CASE s = NEARUSDT -> [binance |-> NEARUSDT, gecko |-> <<"n","e","a","r">>,
                           cc |-> <<>>, coincap |-> <<>>]
       [] s = BTCUSDT  -> [binance |-> BTCUSDT,
                           gecko |-> <<"b","i","t","c","o","i","n">>,
                           cc |-> <<>>, coincap |-> <<>>]
       [] s = SOLUSDT  -> [binance |-> SOLUSDT,
                           gecko |-> <<"s","o","l","a","n","a">>,
                           cc |-> <<>>, coincap |-> <<>>]
       [] s = ETHUSDT  -> [binance |-> ETHUSDT,
                           gecko |-> <<"e","t","h","e","r","e","u","m">>,
                           cc |-> <<>>, coincap |-> <<>>]]

\* SYMBOL_MAP of the multi-source server.
SYMBOL_MAP_5 ==
  [s \in {NEARUSDT, BTCUSDT, SOLUSDT, ETHUSDT} |->
     CASE s = NEARUSDT -> [binance |-> NEARUSDT, gecko |-> <<"n","e","a","r">>,
                           cc |-> <<"N","E","A","R">>,
                           coincap |-> <<"n","e","a","r","-","p","r","o","t","o","c","o","l">>]
       [] s = BTCUSDT  -> [binance |-> BTCUSDT,
                           gecko |-> <<"b","i","t","c","o","i","n">>,
                           cc |-> <<"B","T","C">>,
                           coincap |-> <<"b","i","t","c","o","i","n">>]
       [] s = SOLUSDT  -> [binance |-> SOLUSDT,
                           gecko |-> <<"s","o","l","a","n","a">>,
                           cc |-> <<"S","O","L">>,
                           coincap |-> <<"s","o","l","a","n","a">>]
       [] s = ETHUSDT  -> [binance |-> ETHUSDT,
                           gecko |-> <<"e","t","h","e","r","e","u","m">>,
                           cc |-> <<"E","T","H">>,
                           coincap |-> <<"e","t","h","e","r","e","u","m">>]]

\* const mapping = SYMBOL_MAP[symbol] ||
\*     { binance: symbol, gecko: symbol.toLowerCase().replace('usdt', '') };
MappingOrHeuristic(sym) ==
  IF sym \in DOMAIN SYMBOL_MAP_2
    THEN SYMBOL_MAP_2[sym]
    ELSE [binance |-> sym,
          gecko |-> replaceFirst(toLowerCase(sym), usdt),
          cc |-> <<>>, coincap |-> <<>>]

\* const map = SYMBOL_MAP[rawSymbol] || SYMBOL_MAP['NEARUSDT'];
MappingOrNear(sym) ==
  IF sym \in DOMAIN SYMBOL_MAP_5 THEN SYMBOL_MAP_5[sym]
                                 ELSE SYMBOL_MAP_5[NEARUSDT]

\* The provider tokens of a request, for the (already upper-cased) symbol.
Mapping(srv, sym) ==
  IF srv = "multi" THEN MappingOrNear(sym) ELSE MappingOrHeuristic(sym)

\* --------------------------------------------------------------- intervals

\* req.query.interval when the query string has none.
Undefined == "undefined"

\* const validIntervals = ['1m', '5m', '15m', '30m', '1h', '4h', '1d'];
validIntervals == <<"1m", "5m", "15m", "30m", "1h", "4h", "1d">>

ValidIntervalSet == { validIntervals[i] : i \in 1..Len(validIntervals) }

\* const interval = req.query.interval || '15m';
queryInterval(q) == IF q = Undefined \/ q = "" THEN "15m" ELSE q

\* const cleanInterval = validIntervals.includes(interval) ? interval : '15m';
cleanInterval(iv) == IF iv \in ValidIntervalSet THEN iv ELSE "15m"

\* The interval the klines handler works with: the two-provider servers
\* validate it, the multi-source server uses req.query.interval || '15m'
\* as it is.
HandlerInterval(srv, q) ==
  IF srv = "multi" THEN queryInterval(q) ELSE cleanInterval(queryInterval(q))

\* ----------------------------------------------------------------- chains

\* The try blocks of the two-provider servers' price and klines handlers.
TwoProviderChain == <<"binance", "coingecko">>

\* The try blocks of the multi-source price handler.
MultiPriceChain ==
  <<"binance", "binance_us", "cryptocompare", "coincap", "coingecko">>

\* The try blocks of the multi-source klines handler. fetchCoinCapKlines is
\* defined and never called.
MultiKlinesChain == <<"binance", "binance_us", "cryptocompare", "coingecko">>

\* The providers a handler tries, in the order of its try blocks.
Chain(srv, ep) ==
  IF srv = "multi"
    THEN IF ep = "price" THEN MultiPriceChain ELSE MultiKlinesChain
    ELSE TwoProviderChain

\* "Sources: Binance -> Binance US -> CryptoCompare -> CoinCap -> CoinGecko",
\* the order the multi-source server documents in its header.
DocumentedSources ==
  <<"binance", "binance_us", "cryptocompare", "coincap", "coingecko">>

\* The token of the mapping each provider is called with.
Token(provider, map) ==
  CASE provider \in {"binance", "binance_us"} -> map.binance
    [] provider = "cryptocompare"             -> map.cc
    [] provider = "coincap"                   -> map.coincap
    [] provider = "coingecko"                 -> map.gecko

\* -------------------------------------------------------- provider requests

\* What a provider is asked for: Binance takes the interval itself,
\* CryptoCompare an endpoint and an aggregate, CoinGecko a number of days.
NoAsk == [interval |-> "", endpoint |-> "", aggregate |-> 0, days |-> 0]

\* fetchCryptoCompareKlines: endpoint and aggregate for an interval.
CryptoCompareAsk(iv) ==
  CASE iv = "1m"  -> [NoAsk EXCEPT !.endpoint = "histominute", !.aggregate = 1]
    [] iv = "5m"  -> [NoAsk EXCEPT !.endpoint = "histominute", !.aggregate = 5]
    [] iv = "15m" -> [NoAsk EXCEPT !.endpoint = "histominute", !.aggregate = 15]
    [] iv = "30m" -> [NoAsk EXCEPT !.endpoint = "histominute", !.aggregate = 30]
    [] iv = "1h"  -> [NoAsk EXCEPT !.endpoint = "histohour", !.aggregate = 1]
    [] iv = "4h"  -> [NoAsk EXCEPT !.endpoint = "histohour", !.aggregate = 4]
    [] iv = "1d"  -> [NoAsk EXCEPT !.endpoint = "histoday", !.aggregate = 1]
    [] OTHER      -> [NoAsk EXCEPT !.endpoint = "histominute", !.aggregate = 5]

\* The CoinGecko fallback of the two-provider servers: days and
\* actualInterval for cleanInterval.
CoinGeckoPlan2(iv) ==
  IF iv \in {"5m", "15m", "30m"}
    THEN [days |-> 1, actualInterval |-> "30m"]
    ELSE IF iv = "1h" THEN [days |-> 2, actualInterval |-> "1h"]
                      ELSE [days |-> 7, actualInterval |-> "4h"]

\* The CoinGecko fallback of the multi-source server.
CoinGeckoPlanMulti(iv) ==
  IF iv \in {"1h", "4h"} THEN [days |-> 7, actualInterval |-> "4h"]
                         ELSE [days |-> 1, actualInterval |-> "30m"]

CoinGeckoPlan(srv, iv) ==
  IF srv = "multi" THEN CoinGeckoPlanMulti(iv) ELSE CoinGeckoPlan2(iv)

\* The request parameters of the klines call to a provider.
KlinesAsk(srv, provider, iv) ==
  CASE provider \in {"binance", "binance_us"} -> [NoAsk EXCEPT !.interval = iv]
    [] provider = "cryptocompare"             -> CryptoCompareAsk(iv)
    [] provider = "coingecko" ->
         [NoAsk EXCEPT !.days = CoinGeckoPlan(srv, iv).days]
    [] OTHER -> NoAsk

\* The bucket width a CryptoCompare request asks for: histominute,
\* histohour and histoday count the aggregate in minutes, hours and days.
CryptoCompareWidth(ask) ==
  CASE ask.endpoint = "histominute" /\ ask.aggregate = 1  -> "1m"
    [] ask.endpoint = "histominute" /\ ask.aggregate = 5  -> "5m"
    [] ask.endpoint = "histominute" /\ ask.aggregate = 15 -> "15m"
    [] ask.endpoint = "histominute" /\ ask.aggregate = 30 -> "30m"
    [] ask.endpoint = "histohour" /\ ask.aggregate = 1    -> "1h"
    [] ask.endpoint = "histohour" /\ ask.aggregate = 4    -> "4h"
    [] ask.endpoint = "histoday" /\ ask.aggregate = 1     -> "1d"
    [] OTHER                                              -> "?"

\* The bucket width a CoinGecko OHLC request asks for, as the handlers
\* state it: days=1 gives 30min candles, days=7 gives 4hr candles, and
\* days=2 is used for 1h.
CoinGeckoWidth(days) ==
  CASE days = 1 -> "30m"
    [] days = 2 -> "1h"
    [] days = 7 -> "4h"
    [] OTHER    -> "?"

\* The bucket width a provider was asked to deliver.
AskedWidth(provider, ask) ==
  CASE provider \in {"binance", "binance_us"} -> ask.interval
    [] provider = "cryptocompare"             -> CryptoCompareWidth(ask)
    [] provider = "coingecko"                 -> CoinGeckoWidth(ask.days)
    [] OTHER                                  -> "?"

\* The interval field of the klines response built from a provider's data.
ResponseInterval(srv, provider, iv) ==
  IF provider = "coingecko" THEN CoinGeckoPlan(srv, iv).actualInterval ELSE iv

\* The source field of the response built from a provider's data.
SourceLabel(provider) == provider

\* ------------------------------------------------------------------ inputs

Servers == {"axios", "fetch", "multi"}

Endpoints == {"price", "klines"}

\* req.params.symbol: a mapped symbol in lower case, a mapped symbol in upper
\* case, and a symbol the maps do not hold.
RawSymbols ==
  { <<"n","e","a","r","u","s","d","t">>,
    BTCUSDT,
    <<"d","o","g","e","u","s","d","t">> }

\* req.query.interval: absent, each enumerated interval, and one that is not
\* enumerated.
RawIntervals == ValidIntervalSet \cup {Undefined, "2h"}

\* What a 2xx reply holds: a well-formed payload, a well-formed but empty
\* candle series, a payload whose price fields are missing or not numbers,
\* and a payload without the object or array the adapter reads (null, an
\* error object).
Shapes(ep) ==
  IF ep = "klines" THEN {"valid", "empty", "nonnumeric", "nocontainer"}
                   ELSE {"valid", "nonnumeric", "nocontainer"}

\* How an attempt can end without a payload the handler accepts: a network
\* error, the timeout, a non-2xx status, a failed read of the body, and a
\* payload the adapter cannot read.
FailureOutcomes == {"neterr", "timeout", "status", "bodyerr", "nocontainer"}

\* ------------------------------------------------------------------- state

VARIABLES
  server,      \* which of the three servers handles the request
  endpoint,    \* "price" or "klines"
  rawSymbol,   \* req.params.symbol
  rawInterval, \* req.query.interval
  pc,          \* "idle": not yet handled; "await": at an await; "done"
  symbol,      \* the handler's symbol / rawSymbol
  map,         \* the handler's mapping / map
  interval,    \* the handler's cleanInterval / interval
  attempts,    \* the provider calls made so far, in order
  inflight,    \* the indices of the attempts whose call is still open
  phase,       \* "call" (axios), "headers" / "body" (fetch), "none"
  timerArmed,  \* whether a timeout is pending for the open call
  elapsed,     \* ticks since the open call started
  sent         \* the HTTP responses written so far

\* The dashboard page (src/public/app.js), which runs in the browser and
\* whose state no server action touches.
VARIABLES
  stateCandles,    \* state.candles, the candles the page works on
  stateIndicators, \* state.indicators
  stateSignals,    \* state.signals: what detectSignals returned
  argData,         \* the data / closes argument of the function that runs
  argPeriod,       \* their period argument
  argMultiplier,   \* the stdDevMultiplier of calculateBollingerBands
  out,             \* what the indicator functions returned for the arguments
  job,             \* "none", "input", then the name of the step that ran
  network,         \* the page's fetches and what came back, in order
  fetched,         \* what fetchData returned: "null", "nocandles", "data"
  overlay          \* the loading overlay: "loading", "failure", "hidden"

\* The Yahoo-backed server (src/unnamed/part_001), a process of its own.
VARIABLES
  yahooFinance,    \* the module's yahooFinance: "null" or "client"
  startup          \* "none", "importing", "initialized", "failed",
                   \* "listening", "exited"

yahoo == <<yahooFinance, startup>>

dashboard ==
  <<stateCandles, stateIndicators, stateSignals, argData, argPeriod,
    argMultiplier, out, job, network, fetched, overlay>>

fetches == <<network, fetched, overlay>>

request ==
  <<server, endpoint, rawSymbol, rawInterval, pc, symbol, map, interval,
    attempts, inflight, phase, timerArmed, elapsed, sent>>

vars ==
  <<server, endpoint, rawSymbol, rawInterval, pc, symbol, map, interval,
    attempts, inflight, phase, timerArmed, elapsed, sent,
    stateCandles, stateIndicators, stateSignals, argData, argPeriod,
    argMultiplier, out, job, network, fetched, overlay, yahooFinance,
    startup>>

inputs == <<server, endpoint, rawSymbol, rawInterval>>

locals == <<symbol, map, interval>>

NoMap == [binance |-> <<>>, gecko |-> <<>>, cc |-> <<>>, coincap |-> <<>>]

NoData == [from |-> "", asset |-> <<>>, shape |-> ""]

\* No page is open: the state object as the script declares it.
NoPage ==
  /\ stateCandles = <<>>
  /\ stateIndicators = <<>>
  /\ stateSignals = <<>>
  /\ argData = <<>>
  /\ argPeriod = 0
  /\ argMultiplier = 0
  /\ out = <<>>
  /\ job = "none"
  /\ network = <<>>
  /\ fetched = "none"
  /\ overlay = "loading"

\* The Yahoo server is not running.
NoYahoo ==
  /\ yahooFinance = "null"
  /\ startup = "none"

Init ==
  /\ NoPage
  /\ NoYahoo
  /\ server \in Servers
  /\ endpoint \in Endpoints
  /\ rawSymbol \in RawSymbols
  /\ rawInterval \in (IF endpoint = "klines" THEN RawIntervals ELSE {Undefined})
  /\ pc = "idle"
  /\ symbol = <<>>
  /\ map = NoMap
  /\ interval = ""
  /\ attempts = <<>>
  /\ inflight = {}
  /\ phase = "none"
  /\ timerArmed = FALSE
  /\ elapsed = 0
  /\ sent = <<>>

\* ---------------------------------------------------------------- handler

\* The canonical data built from a provider's payload.
Normalize(provider, token, shape) ==
  [from |-> provider, asset |-> token, shape |-> shape]

\* Whether the adapter code reads the payload without throwing and without
\* its own check refusing it. Every adapter dereferences one container
\* (response.data, data[id], RAW[symbol].USD, Data.Data, an array to map) and
\* nothing else is checked: parseFloat of a missing field is NaN, an empty
\* array maps to an empty array.
Accepts(srv, ep, provider, shape) == shape # "nocontainer"

\* A handler whose catch blocks are missing: the first failure ends the
\* request.
HasNextNever(srv, ep, i) == FALSE

\* Whether another try block follows the i-th one.
HasNext(srv, ep, i) == i < Len(Chain(srv, ep))

\* The call of an attempt ends (its promise settled).
Close(calls, i) == calls \ {i}

\* A timeout that only rejects the awaited promise and leaves the call open.
AbortIgnored(calls, i) == calls

\* The timeout aborts the call: axios' timeout, controller.abort().
Abort(calls, i) == calls \ {i}

\* res.json({source, symbol, ...}) for the data of a provider.
Success(srv, ep, provider, sym, iv, data) ==
  [status |-> 200, source |-> SourceLabel(provider), symbol |-> sym,
   interval |-> IF ep = "klines" THEN ResponseInterval(srv, provider, iv)
                                 ELSE "",
   error |-> "", data |-> data]

\* res.status(500).json({error: 'All ... sources failed'})
AllFailed(ep) ==
  [status |-> 500, source |-> "", symbol |-> <<>>, interval |-> "",
   error |-> IF ep = "price" THEN "All price sources failed"
                             ELSE "All kline sources failed",
   data |-> NoData]

\* The request of the i-th try block.
Attempt(srv, ep, i, m, iv) ==
  LET provider == Chain(srv, ep)[i]
  IN  [provider |-> provider,
       token |-> Token(provider, m),
       ask |-> IF ep = "klines" THEN KlinesAsk(srv, provider, iv) ELSE NoAsk,
       outcome |-> "pending"]

\* The i-th try block starts its call, after atts, with calls still open.
StartCall(i, atts, calls, m, iv) ==
  /\ attempts' = Append(atts, Attempt(server, endpoint, i, m, iv))
  /\ inflight' = calls \cup {i}
  /\ phase' = IF server = "fetch" THEN "headers" ELSE "call"
  /\ timerArmed' = TRUE
  /\ elapsed' = 0
  /\ pc' = "await"

Current == Len(attempts)

Ended(outcome) == [attempts EXCEPT ![Current].outcome = outcome]

\* The current attempt failed: the catch block (or the fall-through after a
\* refused reply) runs, then the next try block or the final 500.
Fail(outcome, calls) ==
  IF HasNext(server, endpoint, Current)
    THEN /\ StartCall(Current + 1, Ended(outcome), calls, map, interval)
         /\ UNCHANGED sent
    ELSE /\ attempts' = Ended(outcome)
         /\ inflight' = calls
         /\ sent' = Append(sent, AllFailed(endpoint))
         /\ pc' = "done"
         /\ phase' = "none"
         /\ timerArmed' = FALSE
         /\ elapsed' = 0

\* A handler that writes the response without returning, so that the code
\* after the try block runs as well.
SettleWithoutReturn(shape) ==
  LET a    == attempts[Current]
      resp == Success(server, endpoint, a.provider, symbol, interval,
                      Normalize(a.provider, a.token, shape))
  IN  IF Accepts(server, endpoint, a.provider, shape)
        THEN IF HasNext(server, endpoint, Current)
               THEN /\ StartCall(Current + 1, Ended(shape),
                                 Close(inflight, Current), map, interval)
                    /\ sent' = Append(sent, resp)
               ELSE /\ attempts' = Ended(shape)
                    /\ inflight' = Close(inflight, Current)
                    /\ sent' = Append(Append(sent, resp), AllFailed(endpoint))
                    /\ pc' = "done"
                    /\ phase' = "none"
                    /\ timerArmed' = FALSE
                    /\ elapsed' = 0
        ELSE Fail(shape, Close(inflight, Current))

\* A 2xx payload reached the adapter code of the current try block.
Settle(shape) ==
  LET a == attempts[Current]
  IN  IF Accepts(server, endpoint, a.provider, shape)
        THEN /\ attempts' = Ended(shape)
             /\ inflight' = Close(inflight, Current)
             /\ sent' = Append(sent,
                  Success(server, endpoint, a.provider, symbol, interval,
                          Normalize(a.provider, a.token, shape)))
             /\ pc' = "done"
             /\ phase' = "none"
             /\ timerArmed' = FALSE
             /\ elapsed' = 0
        ELSE Fail(shape, Close(inflight, Current))

\* The request arrives: the handler computes its locals and starts the first
\* try block.
Handle ==
  /\ pc = "idle"
  /\ LET sym == toUpperCase(rawSymbol)
         m   == Mapping(server, sym)
         iv  == IF endpoint = "klines" THEN HandlerInterval(server, rawInterval)
                                       ELSE ""
     IN  /\ symbol' = sym
         /\ map' = m
         /\ interval' = iv
         /\ StartCall(1, attempts, inflight, m, iv)
  /\ UNCHANGED <<dashboard, yahoo, inputs, sent>>

\* Time passes while a call is open. An armed timer fires at the deadline,
\* so the clock passes the deadline only when no timer is armed.
Tick ==
  /\ pc = "await"
  /\ elapsed < (IF timerArmed THEN TimeoutTicks
                              ELSE TimeoutTicks + OverrunTicks)
  /\ elapsed' = elapsed + 1
  /\ UNCHANGED <<dashboard, yahoo, inputs, locals, pc, attempts, inflight,
                 phase,
                 timerArmed, sent>>

\* The timeout of the open call elapses: the call is aborted and the await
\* throws. axios' timeout option is taken to run until the call has settled,
\* body included, as its documentation states; fetchWithTimeout's timer is
\* armed only until fetch resolves (see FetchResolves).
TimerFires ==
  /\ pc = "await"
  /\ timerArmed
  /\ elapsed = TimeoutTicks
  /\ Fail("timeout", Abort(inflight, Current))
  /\ UNCHANGED <<dashboard, yahoo, inputs, locals>>

\* axios rejects: a network error, or a status outside 2xx.
AxiosRejects ==
  /\ pc = "await"
  /\ phase = "call"
  /\ \E kind \in {"neterr", "status"} : Fail(kind, Close(inflight, Current))
  /\ UNCHANGED <<dashboard, yahoo, inputs, locals>>

\* axios resolves with a 2xx reply, its body read and parsed.
AxiosResolves ==
  /\ pc = "await"
  /\ phase = "call"
  /\ \E shape \in Shapes(endpoint) : Settle(shape)
  /\ UNCHANGED <<dashboard, yahoo, inputs, locals>>

\* fetch rejects before any response: fetchWithTimeout clears the timer and
\* rethrows.
FetchRejects ==
  /\ pc = "await"
  /\ phase = "headers"
  /\ Fail("neterr", Close(inflight, Current))
  /\ UNCHANGED <<dashboard, yahoo, inputs, locals>>

\* fetch resolves with the response's status and headers: fetchWithTimeout
\* clears the timer and returns; the handler reads the body when response.ok
\* and falls through to the next try block otherwise.
FetchResolves ==
  /\ pc = "await"
  /\ phase = "headers"
  /\ \E ok \in BOOLEAN :
       IF ok
         THEN /\ phase' = "body"
              /\ timerArmed' = FALSE
              /\ UNCHANGED <<pc, attempts, inflight, elapsed, sent>>
         ELSE Fail("status", Close(inflight, Current))
  /\ UNCHANGED <<dashboard, yahoo, inputs, locals>>

\* await response.json() resolves.
BodyArrives ==
  /\ pc = "await"
  /\ phase = "body"
  /\ \E shape \in Shapes(endpoint) : Settle(shape)
  /\ UNCHANGED <<dashboard, yahoo, inputs, locals>>

\* await response.json() rejects: the connection broke, or the body is not
\* JSON.
BodyFails ==
  /\ pc = "await"
  /\ phase = "body"
  /\ Fail("bodyerr", Close(inflight, Current))
  /\ UNCHANGED <<dashboard, yahoo, inputs, locals>>

Next ==
  \/ Handle
  \/ Tick
  \/ TimerFires
  \/ AxiosRejects
  \/ AxiosResolves
  \/ FetchRejects
  \/ FetchResolves
  \/ BodyArrives
  \/ BodyFails

Spec == Init /\ [][Next]_vars

\* ------------------------------------------------------------------ claims

TheChain == Chain(server, endpoint)

Failed(i) == i <= Len(attempts) /\ attempts[i].outcome \in FailureOutcomes

\* The attempt ended with a 2xx payload that the handler answered with.
Succeeded(i) ==
  /\ i <= Len(attempts)
  /\ attempts[i].outcome \notin FailureOutcomes \cup {"pending"}

\* C1: when the first K providers of the chain fail and provider K+1
\* succeeds, exactly K+1 attempts are made (one per provider, in chain
\* order), the single response carries provider K+1's normalized data and
\* names provider K+1 as its source, and no later provider is ever called
\* (K = 0 included).
C1_CascadeStopsAtFirstSuccess ==
  \A k \in 0..(Len(TheChain) - 1) :
    ((\A i \in 1..k : Failed(i)) /\ Succeeded(k + 1)) =>
      /\ Len(attempts) = k + 1
      /\ \A i \in 1..(k + 1) : attempts[i].provider = TheChain[i]
      /\ inflight = {}
      /\ pc = "done"
      /\ Len(sent) = 1
      /\ sent[1].status = 200
      /\ sent[1].source = TheChain[k + 1]
      /\ sent[1].data = Normalize(TheChain[k + 1], attempts[k + 1].token,
                                  attempts[k + 1].outcome)

\* Two providers failed, each in its own way, and the third one answered.
C1_Witness ==
  /\ Len(attempts) = 3
  /\ attempts[1].outcome = "timeout"
  /\ attempts[2].outcome = "status"
  /\ attempts[3].outcome = "valid"
  /\ Len(sent) = 1
  /\ sent[1].source = "cryptocompare"

AllProvidersFailed == \A i \in 1..Len(TheChain) : Failed(i)

\* C2: the aggregate failure (500, 'All price sources failed' / 'All kline
\* sources failed') is the response if and only if every provider of the
\* chain was tried and failed; a success response names the provider that
\* answered and carries nothing of the failures before it.
C2_AggregateFailureIffAllFailed ==
  /\ AllProvidersFailed <=>
       (\E n \in 1..Len(sent) : sent[n].status = 500)
  /\ \A n \in 1..Len(sent) :
       /\ sent[n].status \in {200, 500}
       /\ sent[n].status = 500 => sent[n] = AllFailed(endpoint)
       /\ sent[n].status = 200 =>
            /\ sent[n].error = ""
            /\ Succeeded(Len(attempts))
            /\ sent[n].source = attempts[Len(attempts)].provider
            /\ sent[n].data.from = attempts[Len(attempts)].provider

\* All five providers of the multi-source price chain failed, in more than
\* one way, and the request ended with the aggregate failure.
C2_Witness ==
  /\ Len(attempts) = 5
  /\ AllProvidersFailed
  /\ attempts[1].outcome = "neterr"
  /\ attempts[5].outcome = "nocontainer"
  /\ sent = <<AllFailed("price")>>

\* C3: a 2xx payload that fails structural validation (an empty candle
\* series, missing or non-numeric price fields) is never answered with: every
\* success response carries a well-formed payload.
C3_MalformedPayloadNeverReturned ==
  \A n \in 1..Len(sent) :
    sent[n].status = 200 => sent[n].data.shape = "valid"

\* C4: at most one provider call is open at any time, it is the call of the
\* latest attempt, and every attempt before the latest one has ended in
\* failure.
C4_SingleFlight ==
  /\ Cardinality(inflight) <= 1
  /\ inflight \subseteq {Len(attempts)}
  /\ \A j \in 1..(Len(attempts) - 1) : Failed(j)
  /\ \A j \in 1..Len(attempts) :
       attempts[j].outcome = "pending" <=> j \in inflight

\* The second call is open after the first one timed out.
C4_Witness ==
  /\ Len(attempts) = 2
  /\ attempts[1].outcome = "timeout"
  /\ inflight = {2}

\* C5: no provider call stays open past its timeout, whatever it is waiting
\* for (the response, or the rest of its body).
C5_AttemptBoundedByTimeout ==
  inflight # {} => elapsed <= TimeoutTicks

\* The length of an enumerated interval in minutes (0 for any other text).
Minutes(iv) ==
  CASE iv = "1m"  -> 1
    [] iv = "5m"  -> 5
    [] iv = "15m" -> 15
    [] iv = "30m" -> 30
    [] iv = "1h"  -> 60
    [] iv = "4h"  -> 240
    [] iv = "1d"  -> 1440
    [] OTHER      -> 0

KlinesSuccess(n) ==
  n \in 1..Len(sent) /\ endpoint = "klines" /\ sent[n].status = 200

\* C6: when an enumerated interval was requested and the response delivers
\* another one, the delivered interval is an enumerated interval that is no
\* finer than the requested one.
C6_SubstituteNoFiner ==
  \A n \in 1..Len(sent) :
    (/\ KlinesSuccess(n)
     /\ rawInterval \in ValidIntervalSet
     /\ sent[n].interval # rawInterval) =>
      /\ sent[n].interval \in ValidIntervalSet
      /\ Minutes(sent[n].interval) >= Minutes(rawInterval)

\* C7: the interval field of every successful candle response is the bucket
\* width the provider that supplied the candles was asked to deliver.
C7_ResponseReportsAskedWidth ==
  \A n \in 1..Len(sent) :
    KlinesSuccess(n) =>
      sent[n].interval = AskedWidth(attempts[Len(attempts)].provider,
                                    attempts[Len(attempts)].ask)

\* C8: the handler's interval is the requested one when it is enumerated and
\* 15m otherwise, so that every interval handed to a provider is enumerated.
C8_OnlyEnumeratedIntervalsReachProviders ==
  (endpoint = "klines" /\ pc # "idle") =>
    /\ interval = (IF rawInterval \in ValidIntervalSet THEN rawInterval
                                                       ELSE "15m")
    /\ \A i \in 1..Len(attempts) :
         attempts[i].ask.interval # "" =>
           attempts[i].ask.interval \in ValidIntervalSet

Unmapped == toUpperCase(rawSymbol) \notin DOMAIN SYMBOL_MAP_5

\* C9: for a symbol the symbol map does not hold, Binance is asked for the
\* upper-cased symbol and CoinGecko for the lower-cased symbol without
\* 'usdt', and a response under the requested symbol carries the data of
\* that token.
C9_UnmappedSymbolKeepsItsOwnTokens ==
  Unmapped =>
    /\ \A i \in 1..Len(attempts) :
         /\ attempts[i].provider \in {"binance", "binance_us"} =>
              attempts[i].token = toUpperCase(rawSymbol)
         /\ attempts[i].provider = "coingecko" =>
              attempts[i].token = replaceFirst(toLowerCase(rawSymbol), usdt)
    /\ \A n \in 1..Len(sent) :
         sent[n].status = 200 =>
           /\ sent[n].symbol = toUpperCase(rawSymbol)
           /\ sent[n].data.asset \in
                { toUpperCase(rawSymbol),
                  replaceFirst(toLowerCase(rawSymbol), usdt) }

\* C10: on the multi-source server the i-th provider tried is the i-th of
\* the documented order Binance, Binance US, CryptoCompare, CoinCap,
\* CoinGecko, for the price endpoint and for the klines endpoint, and the
\* aggregate failure comes only after all five.
C10_DocumentedOrderOnBothEndpoints ==
  server = "multi" =>
    /\ \A i \in 1..Len(attempts) :
         i <= Len(DocumentedSources) /\
         attempts[i].provider = DocumentedSources[i]
    /\ \A n \in 1..Len(sent) :
         sent[n].status = 500 => Len(attempts) = Len(DocumentedSources)

(***************************************************************************)
(* The dashboard page, src/public/app.js: the indicator functions and the  *)
(* signal detector.  They are synchronous, so each runs as one action.     *)
(***************************************************************************)

\* ----------------------------------------------------------------- numbers

\* A JavaScript number is modelled by the exact fraction n/d in lowest terms
\* (d > 0); rounding of the 64-bit floats is not modelled.  null and NaN are
\* the two values with d = 0.
RECURSIVE GCD(_, _)
GCD(a, b) == IF b = 0 THEN a ELSE GCD(b, a % b)

Abs(x) == IF x < 0 THEN -x ELSE x

Rat(n, d) ==
  LET g == GCD(Abs(n), Abs(d))
  IN  IF d > 0 THEN [n |-> n \div g, d |-> d \div g]
               ELSE [n |-> (-n) \div g, d |-> (-d) \div g]

Int2Rat(i) == [n |-> i, d |-> 1]

Null == [n |-> 0, d |-> 0]

NaN == [n |-> 1, d |-> 0]

\* ToNumber: null counts as 0 in arithmetic and in comparisons.
Number(x) == IF x = Null THEN Int2Rat(0) ELSE x

IsNaN(x) == Number(x).d = 0

Add(x, y) ==
  LET a == Number(x)  b == Number(y)
  IN  IF IsNaN(a) \/ IsNaN(b) THEN NaN
      ELSE LET g == GCD(a.d, b.d)
           IN  Rat(a.n * (b.d \div g) + b.n * (a.d \div g),
                   (a.d \div g) * b.d)

Sub(x, y) ==
  LET a == Number(x)  b == Number(y)
  IN  IF IsNaN(a) \/ IsNaN(b) THEN NaN
      ELSE LET g == GCD(a.d, b.d)
           IN  Rat(a.n * (b.d \div g) - b.n * (a.d \div g),
                   (a.d \div g) * b.d)

Mul(x, y) ==
  LET a == Number(x)  b == Number(y)
  IN  IF IsNaN(a) \/ IsNaN(b) THEN NaN
      ELSE Rat(a.n * b.n, a.d * b.d)

\* x / y.  The only division by zero the functions below can reach with a
\* period of at least 1 is 0 / 0, which is NaN.
Div(x, y) ==
  LET a == Number(x)  b == Number(y)
  IN  IF IsNaN(a) \/ IsNaN(b) \/ b.n = 0 THEN NaN
      ELSE Rat(a.n * b.d, a.d * b.n)

\* Math.sqrt(v), kept exact: a value a + k * sqrt(root) is the record of its
\* three fractions.
Sqrt(v) == [a |-> Int2Rat(0), k |-> Int2Rat(1), root |-> Number(v)]

IsSurd(x) == "root" \in DOMAIN x

\* m * s, q + s and q - s for a fraction m, q and a root value s.
Scale(m, s) == [a |-> Mul(m, s.a), k |-> Mul(m, s.k), root |-> s.root]

PlusFlipped(q, s) ==
  [a |-> Sub(q, s.a), k |-> Mul(Int2Rat(-1), s.k), root |-> s.root]

Plus(q, s) == [a |-> Add(q, s.a), k |-> s.k, root |-> s.root]

Minus(q, s) == [a |-> Sub(q, s.a), k |-> Mul(Int2Rat(-1), s.k), root |-> s.root]

Sgn(i) == IF i > 0 THEN 1 ELSE IF i < 0 THEN -1 ELSE 0

\* The sign of a fraction, and of a + k * sqrt(root).
SignOf(x) ==
  IF ~IsSurd(x) THEN Sgn(Number(x).n)
  ELSE LET sa == Sgn(x.a.n)
           sk == IF x.root.n = 0 THEN 0 ELSE Sgn(x.k.n)
           a2 == Mul(x.a, x.a)
           k2 == Mul(Mul(x.k, x.k), x.root)
           d  == Sgn(a2.n * k2.d - k2.n * a2.d)
       IN  IF sk = 0 THEN sa
           ELSE IF sa = 0 \/ sa = sk THEN sk
           ELSE IF d > 0 THEN sa ELSE IF d < 0 THEN sk ELSE 0

\* x - y where at most one of the two is a root value.
Diff(x, y) ==
  IF IsSurd(x) THEN [a |-> Sub(x.a, y), k |-> x.k, root |-> x.root]
  ELSE IF IsSurd(y) THEN Minus(x, y)
  ELSE Sub(x, y)

Defined(x) == IF IsSurd(x) THEN x.a.d # 0 /\ x.k.d # 0 /\ x.root.d # 0
              ELSE ~IsNaN(x)

\* The comparison operators: false as soon as one side is NaN.
Lt(x, y) == Defined(x) /\ Defined(y) /\ SignOf(Diff(x, y)) < 0

Le(x, y) == Defined(x) /\ Defined(y) /\ SignOf(Diff(x, y)) <= 0

Gt(x, y) == Lt(y, x)

Ge(x, y) == Le(y, x)

\* seq[i] with JavaScript's indices, which start at 0.  An index outside the
\* array reads undefined, which computes and compares like NaN.
At(seq, i) == IF 0 <= i /\ i < Len(seq) THEN seq[i + 1] ELSE NaN

\* array.slice(from, to)
Slice(seq, from, to) ==
  LET lo == IF from >= 0 THEN from
            ELSE IF Len(seq) + from > 0 THEN Len(seq) + from ELSE 0
      hi == IF to > Len(seq) THEN Len(seq) ELSE to
  IN  IF hi <= lo THEN <<>> ELSE [j \in 1..(hi - lo) |-> seq[lo + j]]

\* array.reduce((a, b) => a + b, 0).  Exact addition is associative, so the
\* sum is taken by halves, which keeps the evaluation shallow.
RECURSIVE Sum(_)
Sum(seq) ==
  IF seq = <<>> THEN Int2Rat(0)
  ELSE IF Len(seq) = 1 THEN Add(Int2Rat(0), seq[1])
  ELSE LET half == Len(seq) \div 2
       IN  Add(Sum(SubSeq(seq, 1, half)), Sum(SubSeq(seq, half + 1, Len(seq))))

MinFirst(a, b) == a

Min(a, b) == IF a < b THEN a ELSE b

\* -------------------------------------------------------------- indicators

\* The loop of calculateEMA from index i on.
RECURSIVE EMALoop(_, _, _, _)
EMALoop(data, multiplier, ema, i) ==
  IF i < Len(data)
  THEN LET currentEMA ==
             Add(Mul(Sub(At(data, i), At(ema, i - 1)), multiplier),
                 At(ema, i - 1))
       IN  EMALoop(data, multiplier, Append(ema, currentEMA), i + 1)
  ELSE ema

calculateEMASeededByFirst(data, period) ==
  EMALoop(data, Div(Int2Rat(2), Int2Rat(period + 1)), <<At(data, 0)>>, 1)

calculateEMA(data, period) ==
  LET multiplier == Div(Int2Rat(2), Int2Rat(period + 1))
      first == Min(period, Len(data))
      sum == Sum(Slice(data, 0, first))
  IN  EMALoop(data, multiplier, <<Div(sum, Int2Rat(first))>>, 1)

calculateSMALate(data, period) ==
  [j \in 1..Len(data) |->
     IF j - 1 < period THEN Null
     ELSE Div(Sum(Slice(data, j - period, j)), Int2Rat(period))]

calculateSMA(data, period) ==
  [j \in 1..Len(data) |->
     LET i == j - 1
     IN  IF i < period - 1 THEN Null
         ELSE Div(Sum(Slice(data, i - period + 1, i + 1)), Int2Rat(period))]

calculateStdDev(data, period, sma) ==
  [j \in 1..Len(data) |->
     LET i == j - 1
     IN  IF i < period - 1 \/ At(sma, i) = Null THEN Null
         ELSE LET slice == Slice(data, i - period + 1, i + 1)
                  mean == At(sma, i)
                  squaredDiffs ==
                    [m \in 1..Len(slice) |->
                       Mul(Sub(slice[m], mean), Sub(slice[m], mean))]
                  variance == Div(Sum(squaredDiffs), Int2Rat(period))
              IN  Sqrt(variance)]

calculateBollingerBands(closes, period, stdDevMulti) ==
  LET sma == calculateSMA(closes, period)
      stdDev == calculateStdDev(closes, period, sma)
      upper == [j \in 1..Len(closes) |->
                  IF sma[j] = Null \/ stdDev[j] = Null THEN Null
                  ELSE Plus(sma[j], Scale(stdDevMulti, stdDev[j]))]
      lower == [j \in 1..Len(closes) |->
                  IF sma[j] = Null \/ stdDev[j] = Null THEN Null
                  ELSE Minus(sma[j], Scale(stdDevMulti, stdDev[j]))]
  IN  [upper |-> upper, middle |-> sma, lower |-> lower]

\* gains and losses: one entry per pair of consecutive closes.
Gains(closes) ==
  [j \in 1..(Len(closes) - 1) |->
     LET change == Sub(closes[j + 1], closes[j])
     IN  IF Gt(change, Int2Rat(0)) THEN change ELSE Int2Rat(0)]

Losses(closes) ==
  [j \in 1..(Len(closes) - 1) |->
     LET change == Sub(closes[j + 1], closes[j])
     IN  IF Lt(change, Int2Rat(0)) THEN Mul(Int2Rat(-1), change)
         ELSE Int2Rat(0)]

RSIValueUnguarded(avgGain, avgLoss) ==
  Sub(Int2Rat(100),
      Div(Int2Rat(100), Add(Int2Rat(1), Div(avgGain, avgLoss))))

\* The value pushed for one pair of averages.
RSIValue(avgGain, avgLoss) ==
  IF avgLoss = Int2Rat(0) THEN Int2Rat(100)
  ELSE LET rs == Div(avgGain, avgLoss)
       IN  Sub(Int2Rat(100), Div(Int2Rat(100), Add(Int2Rat(1), rs)))

\* The second loop of calculateRSI; st holds the loop's variables avgGain,
\* avgLoss, rsi and i.
RECURSIVE RSILoop(_, _, _, _)
RSILoop(gains, losses, period, st) ==
  IF st.i < Len(gains)
  THEN LET g == Div(Add(Mul(st.avgGain, Int2Rat(period - 1)),
                        At(gains, st.i)),
                    Int2Rat(period))
           l == Div(Add(Mul(st.avgLoss, Int2Rat(period - 1)),
                        At(losses, st.i)),
                    Int2Rat(period))
       IN  RSILoop(gains, losses, period,
                   [avgGain |-> g, avgLoss |-> l,
                    rsi |-> Append(st.rsi, RSIValue(g, l)), i |-> st.i + 1])
  ELSE st.rsi

calculateRSI(closes, period) ==
  LET gains == Gains(closes)
      losses == Losses(closes)
      seed == [j \in 1..period |-> Int2Rat(50)]
      avgGain == Div(Sum(Slice(gains, 0, period)), Int2Rat(period))
      avgLoss == Div(Sum(Slice(losses, 0, period)), Int2Rat(period))
  IN  RSILoop(gains, losses, period,
              [avgGain |-> avgGain, avgLoss |-> avgLoss,
               rsi |-> Append(seed, RSIValue(avgGain, avgLoss)),
               i |-> period])

\* ----------------------------------------------------------------- signals

\* CONFIG
emaFast == 9

emaSlow == 21

bollingerPeriodBeyondStart == emaSlow + 3

bollingerPeriod == 20

bollingerStdDev == 2

rsiPeriod == 14

takeProfitPercentNegative == Rat(-3, 2)

takeProfitPercent == Rat(3, 2)

stopLossPercent == Rat(4, 5)

\* The state object's indicators before init has filled them: {}.
NoIndicators == <<>>

PointsHalved(c, points) == IF c THEN points \div 2 ELSE 0

PointsNever(c, points) == 0

\* if (c) { strength += points; reasons.push(label); }
Points(c, points) == IF c THEN points ELSE 0

LabelNever(c, label) == <<>>

LabelTwice(c, label) == IF c THEN <<label, label>> ELSE <<>>

Label(c, label) == IF c THEN <<label>> ELSE <<>>

\* What the LONG half of one loop iteration pushes.
LongAt(candles, indicators, i) ==
  LET candle == At(candles, i)
      prevCandle == At(candles, i - 1)
      price == candle.close
      time == candle.time * 1000
      currentEma9 == At(indicators.ema9, i)
      currentEma21 == At(indicators.ema21, i)
      prevEma9 == At(indicators.ema9, i - 1)
      prevEma21 == At(indicators.ema21, i - 1)
      currentRSI == At(indicators.rsi, i)
      prevRSI == At(indicators.rsi, i - 1)
      bbLower == At(indicators.bb.lower, i)
      emaGoldenCross ==
        Le(prevEma9, prevEma21) /\ Gt(currentEma9, currentEma21)
      bbLowerBounce ==
        /\ Le(prevCandle.low, At(indicators.bb.lower, i - 1))
        /\ Gt(price, bbLower)
        /\ Gt(price, prevCandle.close)
      rsiOversoldRecovery ==
        Le(prevRSI, Int2Rat(30)) /\ Gt(currentRSI, Int2Rat(30))
      strength ==
        Points(emaGoldenCross, 40) + Points(bbLowerBounce, 30)
          + Points(rsiOversoldRecovery, 30)
          + Points(Gt(currentEma9, currentEma21), 10)
          + Points(Lt(currentRSI, Int2Rat(50)), 10)
      reasons ==
        Label(emaGoldenCross, "EMA Golden Cross")
          \o Label(bbLowerBounce, "BB Lower Bounce")
          \o Label(rsiOversoldRecovery, "RSI Oversold Recovery")
  IN  IF /\ \/ emaGoldenCross
            \/ (bbLowerBounce /\ Lt(currentRSI, Int2Rat(50)))
            \/ rsiOversoldRecovery
         /\ strength >= 30
      THEN << [type |-> "LONG", time |-> time, price |-> price,
               takeProfit |->
                 Mul(price, Add(Int2Rat(1),
                                Div(takeProfitPercent, Int2Rat(100)))),
               stopLoss |->
                 Mul(price, Sub(Int2Rat(1),
                                Div(stopLossPercent, Int2Rat(100)))),
               strength |-> Min(strength, 100), reasons |-> reasons,
               rsi |-> currentRSI, ema9 |-> currentEma9,
               ema21 |-> currentEma21] >>
      ELSE <<>>

\* What the SHORT half of one loop iteration pushes.
ShortAt(candles, indicators, i) ==
  LET candle == At(candles, i)
      prevCandle == At(candles, i - 1)
      price == candle.close
      time == candle.time * 1000
      currentEma9 == At(indicators.ema9, i)
      currentEma21 == At(indicators.ema21, i)
      prevEma9 == At(indicators.ema9, i - 1)
      prevEma21 == At(indicators.ema21, i - 1)
      currentRSI == At(indicators.rsi, i)
      prevRSI == At(indicators.rsi, i - 1)
      bbUpper == At(indicators.bb.upper, i)
      emaDeathCross ==
        Ge(prevEma9, prevEma21) /\ Lt(currentEma9, currentEma21)
      bbUpperReject ==
        /\ Ge(prevCandle.high, At(indicators.bb.upper, i - 1))
        /\ Lt(price, bbUpper)
        /\ Lt(price, prevCandle.close)
      rsiOverboughtReject ==
        Ge(prevRSI, Int2Rat(70)) /\ Lt(currentRSI, Int2Rat(70))
      strength ==
        Points(emaDeathCross, 40) + Points(bbUpperReject, 30)
          + Points(rsiOverboughtReject, 30)
          + Points(Lt(currentEma9, currentEma21), 10)
          + Points(Gt(currentRSI, Int2Rat(50)), 10)
      reasons ==
        Label(emaDeathCross, "EMA Death Cross")
          \o Label(bbUpperReject, "BB Upper Rejection")
          \o Label(rsiOverboughtReject, "RSI Overbought Rejection")
  IN  IF /\ \/ emaDeathCross
            \/ (bbUpperReject /\ Gt(currentRSI, Int2Rat(50)))
            \/ rsiOverboughtReject
         /\ strength >= 30
      THEN << [type |-> "SHORT", time |-> time, price |-> price,
               takeProfit |->
                 Mul(price, Sub(Int2Rat(1),
                                Div(takeProfitPercent, Int2Rat(100)))),
               stopLoss |->
                 Mul(price, Add(Int2Rat(1),
                                Div(stopLossPercent, Int2Rat(100)))),
               strength |-> Min(strength, 100), reasons |-> reasons,
               rsi |-> currentRSI, ema9 |-> currentEma9,
               ema21 |-> currentEma21] >>
      ELSE <<>>

RECURSIVE DetectLoopShortFirst(_, _, _, _)
DetectLoopShortFirst(candles, indicators, sigs, i) ==
  IF i < Len(candles)
  THEN DetectLoopShortFirst(candles, indicators,
                            sigs \o ShortAt(candles, indicators, i)
                                 \o LongAt(candles, indicators, i),
                            i + 1)
  ELSE sigs

\* The loop of detectSignals from index i on.
RECURSIVE DetectLoop(_, _, _, _)
DetectLoop(candles, indicators, sigs, i) ==
  IF i < Len(candles)
  THEN DetectLoop(candles, indicators,
                  sigs \o LongAt(candles, indicators, i)
                       \o ShortAt(candles, indicators, i),
                  i + 1)
  ELSE sigs

LongEnoughAlways(candles) == TRUE

\* The series is long enough for the loop to run.
LongEnough(candles) == ~(Len(candles) < 25)

\* Reading ema9[i] throws a TypeError when the indicators were never filled.
detectSignalsThrows(candles, indicators) ==
  LongEnough(candles) /\ "ema9" \notin DOMAIN indicators

detectSignalsAccumulating(candles, indicators) ==
  stateSignals \o (IF ~LongEnough(candles) THEN <<>>
                   ELSE DetectLoop(candles, indicators, <<>>, 22))

detectSignals(candles, indicators) ==
  IF ~LongEnough(candles) THEN <<>>
  ELSE DetectLoop(candles, indicators, <<>>, 22)

\* ------------------------------------------------- the detector's inputs

\* How many candles beyond the detector's minimum of 25 the longest series
\* has.
ExtraCandles == 1

\* The series lengths tried: too short (2, 24), the minimum and the longest.
SeriesLengths == {2, 24, 25, 25 + ExtraCandles}

\* low, close and high of a candle, chosen around bands of 10 and 20: at 0,
\* through the lower band, on it, between the bands, through the upper
\* band, on it.
CandleShapes ==
  { [low |-> 0, close |-> 0, high |-> 0],
    [low |-> 9, close |-> 11, high |-> 12],
    [low |-> 10, close |-> 10, high |-> 12],
    [low |-> 13, close |-> 15, high |-> 16],
    [low |-> 18, close |-> 19, high |-> 21],
    [low |-> 18, close |-> 20, high |-> 20] }

\* The fast EMA below, on and above a slow EMA of 2.
FastEmaLevels == {1, 2, 3}

\* RSI values on and between the thresholds 30, 50 and 70.
RsiLevels == {30, 40, 50, 60, 70}

Rows ==
  [shape : CandleShapes, ema9 : FastEmaLevels, rsi : RsiLevels]

\* The row every index outside the varied pair holds.
QuietRow ==
  [shape |-> [low |-> 13, close |-> 15, high |-> 16], ema9 |-> 2, rsi |-> 50]

\* The rows of a series of n candles that holds a at index k-1, b at index k.
RowAt(n, k, a, b, i) == IF i = k - 1 THEN a ELSE IF i = k THEN b ELSE QuietRow

CandlesOf(n, k, a, b) ==
  [j \in 1..n |->
     LET r == RowAt(n, k, a, b, j - 1)
     IN  [time |-> 60 * (j - 1), low |-> Int2Rat(r.shape.low),
          high |-> Int2Rat(r.shape.high), close |-> Int2Rat(r.shape.close)]]

\* Indicator arrays as long as the series: the bands are null before index
\* 19 and the RSI is its seed 50 before index 14, as the indicator functions
\* leave them.
IndicatorsOf(n, k, a, b) ==
  [ema9  |-> [j \in 1..n |-> Int2Rat(RowAt(n, k, a, b, j - 1).ema9)],
   ema21 |-> [j \in 1..n |-> Int2Rat(2)],
   bb    |-> [upper  |-> [j \in 1..n |->
                            IF j - 1 < 19 THEN Null ELSE Int2Rat(20)],
              middle |-> [j \in 1..n |->
                            IF j - 1 < 19 THEN Null ELSE Int2Rat(15)],
              lower  |-> [j \in 1..n |->
                            IF j - 1 < 19 THEN Null ELSE Int2Rat(10)]],
   rsi   |-> [j \in 1..n |->
                IF j - 1 < 14 THEN Int2Rat(50)
                ELSE Int2Rat(RowAt(n, k, a, b, j - 1).rsi)]]

\* The varied pair sits at one of the last two positions of the series (at
\* the last one in a series the detector turns away).
PairPositions(n) ==
  {k \in 1..(n - 1) : IF n < 25 THEN k = n - 1 ELSE k >= n - 2}

\* No request is in progress on any server.
NoRequest ==
  /\ NoYahoo
  /\ server = "axios"
  /\ endpoint = "price"
  /\ rawSymbol = NEARUSDT
  /\ rawInterval = Undefined
  /\ pc = "idle"
  /\ symbol = <<>>
  /\ map = NoMap
  /\ interval = ""
  /\ attempts = <<>>
  /\ inflight = {}
  /\ phase = "none"
  /\ timerArmed = FALSE
  /\ elapsed = 0
  /\ sent = <<>>

\* detectSignals is about to be called with a series and its indicators, or
\* with a series and the indicators the state object starts with.
InitSignals ==
  /\ NoRequest
  /\ \E n \in SeriesLengths : \E k \in PairPositions(n) :
       \E a \in Rows : \E b \in Rows :
         /\ stateCandles = CandlesOf(n, k, a, b)
         /\ \/ stateIndicators = IndicatorsOf(n, k, a, b)
            \/ /\ a = QuietRow /\ b = QuietRow
               /\ stateIndicators = NoIndicators
  /\ stateSignals = <<>>
  /\ argData = <<>>
  /\ argPeriod = 0
  /\ argMultiplier = 0
  /\ out = <<>>
  /\ job = "input"
  /\ network = <<>>
  /\ fetched = "none"
  /\ overlay = "loading"

\* state.signals = detectSignals(candles, indicators)
Detect ==
  /\ job = "input"
  /\ IF detectSignalsThrows(stateCandles, stateIndicators)
     THEN /\ job' = "threw"
          /\ UNCHANGED stateSignals
     ELSE /\ job' = "detected"
          /\ stateSignals' = detectSignals(stateCandles, stateIndicators)
  /\ UNCHANGED <<request, yahoo, fetches, stateCandles, stateIndicators,
                 argData, argPeriod, argMultiplier, out>>

\* detectSignals called a second time with the same arguments; out keeps
\* the list the first call returned.
DetectAgain ==
  /\ job = "detected"
  /\ job' = "redetected"
  /\ out' = stateSignals
  /\ stateSignals' = detectSignals(stateCandles, stateIndicators)
  /\ UNCHANGED <<request, yahoo, fetches, stateCandles, stateIndicators,
                 argData, argPeriod, argMultiplier>>

NextSignals == Detect \/ DetectAgain

SpecSignals == InitSignals /\ [][NextSignals]_vars

\* ------------------------------------------------- claims on the detector

\* detectSignals has returned (once or twice).
Detected == job \in {"detected", "redetected"}

SeriesLen == Len(stateCandles)

\* The indices the detector evaluates.
Evaluated == IF SeriesLen < 25 THEN {} ELSE 22 .. (SeriesLen - 1)

\* The positions in state.signals of the signals of one direction that carry
\* the time of candle i.
Emitted(type, i) ==
  {m \in 1..Len(stateSignals) :
     /\ stateSignals[m].type = type
     /\ stateSignals[m].time = At(stateCandles, i).time * 1000}

\* C11: a series of fewer than 25 candles yields the empty signal list and
\* no error, whatever the indicators are (even the unfilled {}).
C11_ShortSeriesYieldsNoSignals ==
  (job # "input" /\ SeriesLen < 25) => (Detected /\ stateSignals = <<>>)

C11_Witness ==
  /\ Detected
  /\ SeriesLen = 24
  /\ "ema9" \notin DOMAIN stateIndicators
  /\ stateSignals = <<>>

\* The conditions of the two directions at index i, read off the inputs.
GoldenCross(i) ==
  /\ Le(At(stateIndicators.ema9, i - 1), At(stateIndicators.ema21, i - 1))
  /\ Gt(At(stateIndicators.ema9, i), At(stateIndicators.ema21, i))

LowerBounce(i) ==
  /\ Le(At(stateCandles, i - 1).low, At(stateIndicators.bb.lower, i - 1))
  /\ Gt(At(stateCandles, i).close, At(stateIndicators.bb.lower, i))
  /\ Gt(At(stateCandles, i).close, At(stateCandles, i - 1).close)

OversoldRecovery(i) ==
  /\ Le(At(stateIndicators.rsi, i - 1), Int2Rat(30))
  /\ Gt(At(stateIndicators.rsi, i), Int2Rat(30))

DeathCross(i) ==
  /\ Ge(At(stateIndicators.ema9, i - 1), At(stateIndicators.ema21, i - 1))
  /\ Lt(At(stateIndicators.ema9, i), At(stateIndicators.ema21, i))

UpperRejection(i) ==
  /\ Ge(At(stateCandles, i - 1).high, At(stateIndicators.bb.upper, i - 1))
  /\ Lt(At(stateCandles, i).close, At(stateIndicators.bb.upper, i))
  /\ Lt(At(stateCandles, i).close, At(stateCandles, i - 1).close)

OverboughtRejection(i) ==
  /\ Ge(At(stateIndicators.rsi, i - 1), Int2Rat(70))
  /\ Lt(At(stateIndicators.rsi, i), Int2Rat(70))

RsiBelow50(i) == Lt(At(stateIndicators.rsi, i), Int2Rat(50))

RsiAbove50(i) == Gt(At(stateIndicators.rsi, i), Int2Rat(50))

LongCandidate(i) ==
  GoldenCross(i) \/ (LowerBounce(i) /\ RsiBelow50(i)) \/ OversoldRecovery(i)

ShortCandidate(i) ==
  DeathCross(i) \/ (UpperRejection(i) /\ RsiAbove50(i))
    \/ OverboughtRejection(i)

\* C12: with at least 25 candles, a LONG (SHORT) signal is emitted at index
\* i in 22..last exactly when the LONG (SHORT) candidate condition holds at
\* i, and no signal is emitted for any other index.
C12_EmittedIffCandidate ==
  (Detected /\ SeriesLen >= 25) =>
    /\ \A i \in Evaluated :
         /\ (Emitted("LONG", i) # {}) <=> LongCandidate(i)
         /\ (Emitted("SHORT", i) # {}) <=> ShortCandidate(i)
    /\ \A m \in 1..Len(stateSignals) :
         \E i \in Evaluated : \E type \in {"LONG", "SHORT"} :
           m \in Emitted(type, i)

\* A lower-band bounce alone makes the LONG signal, a candidate-free index
\* stays silent, and a SHORT candidate is answered too.
C12_Witness ==
  /\ Detected
  /\ SeriesLen >= 25
  /\ \E i \in Evaluated :
       /\ LowerBounce(i) /\ RsiBelow50(i)
       /\ ~GoldenCross(i) /\ ~OversoldRecovery(i)
       /\ Emitted("LONG", i) # {}
  /\ \E i \in Evaluated :
       /\ ~LongCandidate(i) /\ Emitted("LONG", i) = {}
       /\ ShortCandidate(i) /\ Emitted("SHORT", i) # {}

\* The index whose candle gave signal m its time.
IndexOf(m) ==
  CHOOSE i \in Evaluated :
    At(stateCandles, i).time * 1000 = stateSignals[m].time

B(c) == IF c THEN 1 ELSE 0

\* The uncapped score of a direction at index i.
LongScore(i) ==
  40 * B(GoldenCross(i)) + 30 * B(LowerBounce(i))
    + 30 * B(OversoldRecovery(i))
    + 10 * B(Gt(At(stateIndicators.ema9, i), At(stateIndicators.ema21, i)))
    + 10 * B(RsiBelow50(i))

ShortScore(i) ==
  40 * B(DeathCross(i)) + 30 * B(UpperRejection(i))
    + 30 * B(OverboughtRejection(i))
    + 10 * B(Lt(At(stateIndicators.ema9, i), At(stateIndicators.ema21, i)))
    + 10 * B(RsiAbove50(i))

Score(m) ==
  IF stateSignals[m].type = "LONG" THEN LongScore(IndexOf(m))
  ELSE ShortScore(IndexOf(m))

\* C13: the strength of every emitted signal is min(100, 40 cross + 30 band
\* + 30 RSI + 10 EMA ordering + 10 RSI side), an integer in 30..100; and a
\* golden cross at an evaluated index with RSI below 50 yields a LONG signal
\* there of strength at least 60.
C13_StrengthIsCappedScore ==
  Detected =>
    /\ \A m \in 1..Len(stateSignals) :
         /\ stateSignals[m].strength
              = (IF Score(m) > 100 THEN 100 ELSE Score(m))
         /\ stateSignals[m].strength \in 30..100
    /\ \A i \in Evaluated :
         (GoldenCross(i) /\ RsiBelow50(i)) =>
           \E m \in Emitted("LONG", i) : stateSignals[m].strength >= 60

\* A golden cross with RSI below 50 that scores 120 is emitted with strength
\* 100, next to a signal whose score is below the cap.
C13_Witness ==
  /\ Detected
  /\ \E i \in Evaluated :
       /\ GoldenCross(i) /\ RsiBelow50(i) /\ LongScore(i) = 120
       /\ \E m \in Emitted("LONG", i) : stateSignals[m].strength = 100
  /\ \E m \in 1..Len(stateSignals) :
       Score(m) = 50 /\ stateSignals[m].strength = 50

\* C14: for a signal with a positive entry price, take-profit and stop-loss
\* are the price moved by 1.5% and 0.8% in the signal's direction, so that
\* stopLoss < price < takeProfit for LONG and takeProfit < price < stopLoss
\* for SHORT.
C14_TargetsBracketThePrice ==
  Detected =>
    \A m \in 1..Len(stateSignals) :
      LET s == stateSignals[m]
      IN  Gt(s.price, Int2Rat(0)) =>
            IF s.type = "LONG"
            THEN /\ s.takeProfit = Mul(s.price, Rat(1015, 1000))
                 /\ s.stopLoss = Mul(s.price, Rat(992, 1000))
                 /\ Lt(s.stopLoss, s.price) /\ Lt(s.price, s.takeProfit)
            ELSE /\ s.takeProfit = Mul(s.price, Rat(985, 1000))
                 /\ s.stopLoss = Mul(s.price, Rat(1008, 1000))
                 /\ Lt(s.takeProfit, s.price) /\ Lt(s.price, s.stopLoss)

C14_Witness ==
  /\ Detected
  /\ \E m \in 1..Len(stateSignals) :
       /\ stateSignals[m].type = "LONG"
       /\ stateSignals[m].price = Int2Rat(15)
       /\ stateSignals[m].takeProfit = Rat(609, 40)
  /\ \E m \in 1..Len(stateSignals) :
       /\ stateSignals[m].type = "SHORT"
       /\ stateSignals[m].price = Int2Rat(15)
       /\ stateSignals[m].stopLoss = Rat(378, 25)

\* The labels of the conditions that hold at index i, in the fixed order.
LongReasons(i) ==
  (IF GoldenCross(i) THEN <<"EMA Golden Cross">> ELSE <<>>)
    \o (IF LowerBounce(i) THEN <<"BB Lower Bounce">> ELSE <<>>)
    \o (IF OversoldRecovery(i) THEN <<"RSI Oversold Recovery">> ELSE <<>>)

ShortReasons(i) ==
  (IF DeathCross(i) THEN <<"EMA Death Cross">> ELSE <<>>)
    \o (IF UpperRejection(i) THEN <<"BB Upper Rejection">> ELSE <<>>)
    \o (IF OverboughtRejection(i)
        THEN <<"RSI Overbought Rejection">> ELSE <<>>)

\* C15: the reasons of every emitted signal are exactly the labels of the
\* conditions that hold at its index for its direction, in the order EMA
\* cross, band, RSI, each at most once, and never none.
C15_ReasonsAreTheFiredConditions ==
  Detected =>
    \A m \in 1..Len(stateSignals) :
      LET s == stateSignals[m]
      IN  /\ s.reasons = (IF s.type = "LONG" THEN LongReasons(IndexOf(m))
                          ELSE ShortReasons(IndexOf(m)))
          /\ s.reasons # <<>>
          /\ \A x, y \in 1..Len(s.reasons) :
               s.reasons[x] = s.reasons[y] => x = y

\* One signal carries all three labels, another the cross label alone.
C15_Witness ==
  /\ Detected
  /\ \E m \in 1..Len(stateSignals) :
       stateSignals[m].reasons
         = <<"EMA Golden Cross", "BB Lower Bounce", "RSI Oversold Recovery">>
  /\ \E m \in 1..Len(stateSignals) :
       stateSignals[m].reasons = <<"EMA Death Cross">>

\* ------------------------------------------- the indicator functions' runs

\* The longest price sequence, the highest price, the longest period and the
\* largest band multiplier tried.
MaxLen == 4

MaxPrice == 3

MaxPeriod == 3

MaxMultiplier == 2

Prices == {Int2Rat(v) : v \in 1..MaxPrice}

\* All price sequences of length 0..MaxLen.
PriceSeqs == UNION {[1..n -> Prices] : n \in 0..MaxLen}

\* Series long enough for the detector: 25 and more closes that stay at one
\* price until the last two.
LongPriceSeqs ==
  { [j \in 1..n |-> IF j <= n - 2 THEN base ELSE tail[j - (n - 2)]] :
      n \in {25, 25 + ExtraCandles}, base \in Prices,
      tail \in [1..2 -> Prices] }

\* data.candles of a reply whose closes are the given prices.
FetchedCandles(closes) ==
  [j \in 1..Len(closes) |->
     [time |-> 60 * (j - 1), low |-> closes[j], high |-> closes[j],
      close |-> closes[j]]]

\* What the network log holds once both fetches of fetchData went through.
BothFetched ==
  <<"GET price", "ok", "json", "GET klines", "ok", "json">>

\* The test of init on what fetchData returned, with only null returned.
FailedToLoadOnlyOnNull(data, candles) == data = "null"

\* !data || !data.candles || data.candles.length === 0
FailedToLoad(data, candles) ==
  \/ data = "null"
  \/ data = "nocandles"
  \/ Len(candles) = 0

\* The closes have arrived; nothing is computed yet.
InitIndicators ==
  /\ NoRequest
  /\ stateCandles = <<>>
  /\ stateIndicators = NoIndicators
  /\ stateSignals = <<>>
  /\ \/ /\ argData \in PriceSeqs
        /\ argPeriod \in 1..MaxPeriod
        /\ argMultiplier \in 0..MaxMultiplier
     \/ /\ argData \in LongPriceSeqs
        /\ argPeriod = MaxPeriod
        /\ argMultiplier = MaxMultiplier
  /\ out = <<>>
  /\ job = "input"
  /\ network = BothFetched
  /\ fetched = "data"
  /\ overlay = "loading"

\* Each indicator function applied to the arguments.
Calculate ==
  /\ job = "input"
  /\ out' = [ema |-> calculateEMA(argData, argPeriod),
             sma |-> calculateSMA(argData, argPeriod),
             bb  |-> calculateBollingerBands(argData, argPeriod,
                                             Int2Rat(argMultiplier)),
             rsi |-> calculateRSI(argData, argPeriod)]
  /\ job' = "calculated"
  /\ UNCHANGED <<request, yahoo, fetches, stateCandles, stateIndicators,
                 stateSignals, argData, argPeriod, argMultiplier>>

\* init() once fetchData has returned: the failure view without candles,
\* otherwise the candles, the indicator set with CONFIG's periods and the
\* signals, and the overlay hidden.
initDashboard ==
  /\ job = "input"
  /\ LET candles == FetchedCandles(argData)
         closes == [j \in 1..Len(candles) |-> candles[j].close]
         indicators ==
           [ema9  |-> calculateEMA(closes, emaFast),
            ema21 |-> calculateEMA(closes, emaSlow),
            bb    |-> calculateBollingerBands(closes, bollingerPeriod,
                                              Int2Rat(bollingerStdDev)),
            rsi   |-> calculateRSI(closes, rsiPeriod)]
     IN  IF FailedToLoad(fetched, candles)
         THEN /\ job' = "failed"
              /\ overlay' = "failure"
              /\ UNCHANGED <<stateCandles, stateIndicators, stateSignals>>
         ELSE /\ job' = "ready"
              /\ stateCandles' = candles
              /\ stateIndicators' = indicators
              /\ stateSignals' = detectSignals(candles, indicators)
              /\ overlay' = "hidden"
  /\ UNCHANGED <<request, yahoo, network, fetched, argData, argPeriod,
                 argMultiplier, out>>

NextIndicators == Calculate \/ initDashboard

SpecIndicators == InitIndicators /\ [][NextIndicators]_vars

\* ------------------------------------------------ claims on the indicators

Calculated == job = "calculated"

\* C16: every array of the indicator set init computes for a non-empty
\* series (fast EMA, slow EMA, upper, middle and lower band, RSI) is exactly
\* as long as the series, however short the series is.
C16_IndicatorArraysMatchCandles ==
  job = "ready" =>
    /\ Len(stateIndicators.ema9) = Len(stateCandles)
    /\ Len(stateIndicators.ema21) = Len(stateCandles)
    /\ Len(stateIndicators.bb.upper) = Len(stateCandles)
    /\ Len(stateIndicators.bb.middle) = Len(stateCandles)
    /\ Len(stateIndicators.bb.lower) = Len(stateCandles)
    /\ Len(stateIndicators.rsi) = Len(stateCandles)

\* How many null entries a sequence starts with.
LeadingNulls(seq) ==
  CHOOSE k \in 0..Len(seq) :
    /\ \A j \in 1..k : seq[j] = Null
    /\ k < Len(seq) => seq[k + 1] # Null

\* period * value is the sum of the period prices ending at index i.
MeanOfTrailing(value, i) ==
  Mul(Int2Rat(argPeriod), value)
    = Sum([m \in 1..argPeriod |-> At(argData, i - argPeriod + m)])

\* C17 as stated: for a non-empty sequence, the SMA starts with exactly
\* period - 1 nulls and every entry from index period - 1 on is the mean of
\* the trailing period prices.
C17_SMAHasPeriodMinusOneNulls ==
  (Calculated /\ Len(argData) > 0) =>
    /\ LeadingNulls(out.sma) = argPeriod - 1
    /\ \A i \in (argPeriod - 1) .. (Len(argData) - 1) :
         MeanOfTrailing(At(out.sma, i), i)

\* C17, amended: for a non-empty sequence of n prices, the SMA has n entries
\* and starts with exactly min(period - 1, n) nulls, and every entry from
\* index period - 1 on is the mean of the trailing period prices.
C17_SMAWarmUpThenTrailingMean ==
  (Calculated /\ Len(argData) > 0) =>
    /\ Len(out.sma) = Len(argData)
    /\ LeadingNulls(out.sma)
         = (IF argPeriod - 1 < Len(argData) THEN argPeriod - 1
            ELSE Len(argData))
    /\ \A i \in (argPeriod - 1) .. (Len(argData) - 1) :
         MeanOfTrailing(At(out.sma, i), i)

\* A series with a warm-up of two nulls followed by two different means.
C17_Witness ==
  /\ Calculated
  /\ argPeriod = 3
  /\ Len(argData) = 4
  /\ LeadingNulls(out.sma) = 2
  /\ At(out.sma, 2) # At(out.sma, 3)

\* C18: for a non-empty sequence the EMA is as long as the input, starts
\* with the mean of the first min(period, length) prices, and every later
\* value is (price[i] - ema[i-1]) * 2 / (period + 1) + ema[i-1].
C18_EMASeedAndRecurrence ==
  (Calculated /\ Len(argData) > 0) =>
    LET first == IF argPeriod < Len(argData) THEN argPeriod
                 ELSE Len(argData)
        k == Rat(2, argPeriod + 1)
    IN  /\ Len(out.ema) = Len(argData)
        /\ Mul(Int2Rat(first), At(out.ema, 0))
             = Sum([m \in 1..first |-> argData[m]])
        /\ \A i \in 1 .. (Len(argData) - 1) :
             At(out.ema, i)
               = Add(Mul(Sub(At(argData, i), At(out.ema, i - 1)), k),
                     At(out.ema, i - 1))

\* A seed that is a mean of several different prices, followed by values
\* that move.
C18_Witness ==
  /\ Calculated
  /\ argPeriod = 2
  /\ Len(argData) = 4
  /\ At(out.ema, 0) # At(argData, 0)
  /\ At(out.ema, 1) # At(out.ema, 0)
  /\ At(out.ema, 3) # At(out.ema, 2)

\* The average loss behind the RSI value at index period + t (Wilder's
\* smoothing of the losses between consecutive closes).
RECURSIVE AverageLoss(_)
AverageLoss(t) ==
  LET loss(j) ==
        IF Lt(argData[j + 1], argData[j])
        THEN Sub(argData[j], argData[j + 1]) ELSE Int2Rat(0)
      n == IF Len(argData) - 1 < argPeriod THEN Len(argData) - 1
           ELSE argPeriod
  IN  IF t = 0
      THEN Div(Sum([j \in 1..(IF n < 0 THEN 0 ELSE n) |-> loss(j)]),
               Int2Rat(argPeriod))
      ELSE Div(Add(Mul(AverageLoss(t - 1), Int2Rat(argPeriod - 1)),
                   loss(argPeriod + t)),
               Int2Rat(argPeriod))

\* C19: every RSI value lies in [0, 100], the first period entries are the
\* seed 50, and wherever the average loss is 0 the value is exactly 100.
C19_RSIBoundedSeededAndGuarded ==
  Calculated =>
    /\ \A i \in 0 .. (Len(out.rsi) - 1) :
         /\ Ge(At(out.rsi, i), Int2Rat(0))
         /\ Le(At(out.rsi, i), Int2Rat(100))
    /\ Len(out.rsi) > argPeriod
    /\ \A i \in 0 .. (argPeriod - 1) : At(out.rsi, i) = Int2Rat(50)
    /\ \A t \in 0 .. (Len(out.rsi) - argPeriod - 1) :
         AverageLoss(t) = Int2Rat(0) =>
           At(out.rsi, argPeriod + t) = Int2Rat(100)

\* A run with a smoothing step: one value at 100 for an average loss of 0,
\* one strictly inside the range.
C19_Witness ==
  /\ Calculated
  /\ Len(out.rsi) = argPeriod + 2
  /\ AverageLoss(0) = Int2Rat(0)
  /\ At(out.rsi, argPeriod) = Int2Rat(100)
  /\ AverageLoss(1) # Int2Rat(0)
  /\ Lt(At(out.rsi, argPeriod + 1), Int2Rat(100))
  /\ Gt(At(out.rsi, argPeriod + 1), Int2Rat(0))

\* C20: wherever upper, middle and lower band are all defined, upper >=
\* middle >= lower (the multiplier is not negative), and upper and lower
\* are null at exactly the indices where the middle band is null.
C20_BandsOrderedAndAligned ==
  Calculated =>
    \A j \in 1 .. Len(argData) :
      /\ (out.bb.upper[j] = Null) <=> (out.bb.middle[j] = Null)
      /\ (out.bb.lower[j] = Null) <=> (out.bb.middle[j] = Null)
      /\ (/\ out.bb.upper[j] # Null
          /\ out.bb.middle[j] # Null
          /\ out.bb.lower[j] # Null) =>
           /\ Ge(out.bb.upper[j], out.bb.middle[j])
           /\ Ge(out.bb.middle[j], out.bb.lower[j])

\* Bands that are null during the warm-up and strictly apart after it.
C20_Witness ==
  /\ Calculated
  /\ argPeriod = 2
  /\ argMultiplier = 2
  /\ Len(argData) = 3
  /\ out.bb.upper[1] = Null /\ out.bb.lower[1] = Null
  /\ Gt(out.bb.upper[3], out.bb.middle[3])
  /\ Gt(out.bb.middle[3], out.bb.lower[3])

\* ------------------------------------- more claims on the detector

\* C22: an index where both condition sets hold emits both a LONG and a
\* SHORT signal, the LONG first; the list is in non-decreasing index order
\* with at most one LONG and one SHORT per index.
C22_BothDirectionsInOrder ==
  Detected =>
    /\ \A i \in Evaluated :
         /\ Cardinality(Emitted("LONG", i)) <= 1
         /\ Cardinality(Emitted("SHORT", i)) <= 1
         /\ (LongCandidate(i) /\ ShortCandidate(i)) =>
              \E l \in Emitted("LONG", i) : \E h \in Emitted("SHORT", i) :
                h = l + 1
    /\ \A m \in 1 .. (Len(stateSignals) - 1) :
         stateSignals[m].time <= stateSignals[m + 1].time

\* A golden cross together with an RSI drop from 70 to below 70 at one
\* index: both signals are there, the LONG first.
C22_Witness ==
  /\ Detected
  /\ \E i \in Evaluated :
       /\ GoldenCross(i) /\ OverboughtRejection(i)
       /\ \E l \in Emitted("LONG", i) : l + 1 \in Emitted("SHORT", i)

C26_ThresholdRejectsNoCandidate ==
  Detected =>
    \A i \in Evaluated :
      /\ LongCandidate(i) =>
           /\ LongScore(i) >= 30
           /\ \E m \in Emitted("LONG", i) : stateSignals[m].strength >= 30
      /\ ShortCandidate(i) =>
           /\ ShortScore(i) >= 30
           /\ \E m \in Emitted("SHORT", i) : stateSignals[m].strength >= 30

\* The weakest candidates there are, an RSI recovery and an RSI rejection
\* with nothing else, are emitted with strength 30.
C26_Witness ==
  /\ Detected
  /\ \E i \in Evaluated :
       /\ LongCandidate(i) /\ LongScore(i) = 30
       /\ \E m \in Emitted("LONG", i) : stateSignals[m].strength = 30
  /\ \E i \in Evaluated :
       /\ ShortCandidate(i) /\ ShortScore(i) = 30
       /\ \E m \in Emitted("SHORT", i) : stateSignals[m].strength = 30

Capped(score) == IF score > 100 THEN 100 ELSE score

\* C27: when an EMA cross or an RSI recovery / rejection triggers the
\* signal and the band's price conditions hold, the band adds its 30 points
\* and its label even though the RSI is on the wrong side of 50.
C27_BandCountsWithoutItsRsiSide ==
  Detected =>
    \A i \in Evaluated :
      /\ ((GoldenCross(i) \/ OversoldRecovery(i))
            /\ LowerBounce(i) /\ ~RsiBelow50(i)) =>
           \E m \in Emitted("LONG", i) :
             /\ stateSignals[m].strength
                  = Capped(30 + 40 * B(GoldenCross(i))
                              + 30 * B(OversoldRecovery(i))
                              + 10 * B(Gt(At(stateIndicators.ema9, i),
                                          At(stateIndicators.ema21, i))))
             /\ \E x \in 1..Len(stateSignals[m].reasons) :
                  stateSignals[m].reasons[x] = "BB Lower Bounce"
      /\ ((DeathCross(i) \/ OverboughtRejection(i))
            /\ UpperRejection(i) /\ ~RsiAbove50(i)) =>
           \E m \in Emitted("SHORT", i) :
             /\ stateSignals[m].strength
                  = Capped(30 + 40 * B(DeathCross(i))
                              + 30 * B(OverboughtRejection(i))
                              + 10 * B(Lt(At(stateIndicators.ema9, i),
                                          At(stateIndicators.ema21, i))))
             /\ \E x \in 1..Len(stateSignals[m].reasons) :
                  stateSignals[m].reasons[x] = "BB Upper Rejection"

\* A golden cross with a lower-band bounce at RSI 60: strength 80 and both
\* labels.
C27_Witness ==
  /\ Detected
  /\ \E i \in Evaluated :
       /\ GoldenCross(i) /\ LowerBounce(i) /\ ~OversoldRecovery(i)
       /\ At(stateIndicators.rsi, i) = Int2Rat(60)
       /\ \E m \in Emitted("LONG", i) :
            /\ stateSignals[m].strength = 80
            /\ stateSignals[m].reasons
                 = <<"EMA Golden Cross", "BB Lower Bounce">>

\* ------------------------------------------- claims on the whole pipeline

\* C24: with CONFIG's periods and at least 25 candles, detection covers the
\* indices 22..last and nothing else (every signal carries the time of a
\* candle at an index >= 22, every candidate there is emitted), and all it
\* reads at those indices and the one before is computed: bands that are
\* not null, RSI past its seed, defined EMAs.
C24_DetectionReadsComputedValues ==
  (job = "ready" /\ SeriesLen >= 25) =>
    /\ \A m \in 1..Len(stateSignals) :
         \E i \in 22 .. (SeriesLen - 1) :
           stateSignals[m].time = At(stateCandles, i).time * 1000
    /\ \A i \in 22 .. (SeriesLen - 1) :
         /\ LongCandidate(i) => Emitted("LONG", i) # {}
         /\ ShortCandidate(i) => Emitted("SHORT", i) # {}
    /\ \A i \in 21 .. (SeriesLen - 1) :
         /\ i < Len(stateIndicators.bb.upper)
         /\ i < Len(stateIndicators.bb.lower)
         /\ At(stateIndicators.bb.upper, i) # Null
         /\ At(stateIndicators.bb.lower, i) # Null
         /\ Defined(At(stateIndicators.bb.upper, i))
         /\ Defined(At(stateIndicators.bb.lower, i))
         /\ rsiPeriod <= i /\ i < Len(stateIndicators.rsi)
         /\ Defined(At(stateIndicators.rsi, i))
         /\ i < Len(stateIndicators.ema9) /\ i < Len(stateIndicators.ema21)
         /\ Defined(At(stateIndicators.ema9, i))
         /\ Defined(At(stateIndicators.ema21, i))

\* 25 candles whose last two closes rise: the pipeline emits a golden cross
\* at index 23, computed from bands and averages that exist.
C24_Witness ==
  /\ job = "ready"
  /\ SeriesLen = 25
  /\ GoldenCross(23)
  /\ Emitted("LONG", 23) # {}
  /\ At(stateIndicators.bb.lower, 22) # Null

\* ------------------------------------------------- the dashboard's start-up

\* What a fetch() of the page can come to: it rejects, it resolves with a
\* status outside 200..299, or with one inside.
FetchOutcomes == {"neterr", "notok", "ok"}

\* What res.json() can come to when no candle list is involved: it rejects,
\* or it yields null or an object.
JsonOutcomes == {"bodyerr", "null", "json"}

\* The page has loaded and init has not run yet.
InitPage ==
  /\ NoRequest
  /\ stateCandles = <<>>
  /\ stateIndicators = NoIndicators
  /\ stateSignals = <<>>
  /\ argData = <<>>
  /\ argPeriod = 0
  /\ argMultiplier = 0
  /\ out = <<>>
  /\ job = "load"
  /\ network = <<>>
  /\ fetched = "none"
  /\ overlay = "loading"

\* fetchData's catch block: it returns null to init.
ReturnNull(outcome) ==
  /\ network' = Append(network, outcome)
  /\ fetched' = "null"
  /\ job' = "input"
  /\ UNCHANGED argData

\* init up to its await, and fetchData up to its first await: the quote is
\* requested.
initStart ==
  /\ job = "load"
  /\ network' = Append(network, "GET price")
  /\ job' = "priceRes"
  /\ UNCHANGED <<request, yahoo, stateCandles, stateIndicators, stateSignals,
                 argData, argPeriod, argMultiplier, out, fetched, overlay>>

\* The quote's fetch settles; fetchData goes on to read the body when the
\* status is ok.
priceRes ==
  /\ job = "priceRes"
  /\ \E outcome \in FetchOutcomes :
       IF outcome = "ok"
       THEN /\ network' = Append(network, outcome)
            /\ job' = "priceData"
            /\ UNCHANGED <<fetched, argData>>
       ELSE ReturnNull(outcome)
  /\ UNCHANGED <<request, yahoo, stateCandles, stateIndicators, stateSignals,
                 argPeriod, argMultiplier, out, overlay>>

\* The quote's body settles; with an object in hand fetchData requests the
\* candles.
priceData ==
  /\ job = "priceData"
  /\ \E outcome \in JsonOutcomes :
       IF outcome = "json"
       THEN /\ network' = network \o <<outcome, "GET klines">>
            /\ job' = "klineRes"
            /\ UNCHANGED <<fetched, argData>>
       ELSE ReturnNull(outcome)
  /\ UNCHANGED <<request, yahoo, stateCandles, stateIndicators, stateSignals,
                 argPeriod, argMultiplier, out, overlay>>

\* The candles' fetch settles.
klineRes ==
  /\ job = "klineRes"
  /\ \E outcome \in FetchOutcomes :
       IF outcome = "ok"
       THEN /\ network' = Append(network, outcome)
            /\ job' = "klineData"
            /\ UNCHANGED <<fetched, argData>>
       ELSE ReturnNull(outcome)
  /\ UNCHANGED <<request, yahoo, stateCandles, stateIndicators, stateSignals,
                 argPeriod, argMultiplier, out, overlay>>

\* The candles' body settles and fetchData returns: null when the body is
\* unreadable or null, otherwise an object with the body's candles, which
\* may be missing or empty.
klineData ==
  /\ job = "klineData"
  /\ \/ \E outcome \in JsonOutcomes \ {"json"} : ReturnNull(outcome)
     \/ /\ network' = Append(network, "json")
        /\ job' = "input"
        /\ \/ /\ fetched' = "nocandles"
              /\ UNCHANGED argData
           \/ /\ fetched' = "data"
              /\ argData' \in PriceSeqs \cup LongPriceSeqs
  /\ UNCHANGED <<request, yahoo, stateCandles, stateIndicators, stateSignals,
                 argPeriod, argMultiplier, out, overlay>>

NextPage ==
  \/ initStart
  \/ priceRes
  \/ priceData
  \/ klineRes
  \/ klineData
  \/ initDashboard

SpecPage == InitPage /\ [][NextPage]_vars

\* ------------------------------------------------- claims on the start-up

\* init has run to its end.
Finished == job \in {"failed", "ready"}

\* The state object holds what the script declared.
StateUntouched ==
  /\ stateCandles = <<>>
  /\ stateIndicators = NoIndicators
  /\ stateSignals = <<>>

\* C28: the quote is requested first and the candles only after the quote
\* came back ok with a readable body, each at most once; indicators and
\* signals are computed only when both fetches went through and the candle
\* list is not empty, and then from that list; when a fetch failed or the
\* list is empty, init ends with the state's candles, indicators and signals
\* as declared and the failure view in the overlay.
C28_QuoteThenCandlesElseFailureView ==
  /\ network # <<>> => network[1] = "GET price"
  /\ \A k \in 1..Len(network) :
       /\ network[k] = "GET price" => k = 1
       /\ network[k] = "GET klines" =>
            k = 4 /\ SubSeq(network, 1, 3) = <<"GET price", "ok", "json">>
  /\ ~StateUntouched =>
       /\ job = "ready"
       /\ network = BothFetched
       /\ fetched = "data"
       /\ argData # <<>>
       /\ stateCandles = FetchedCandles(argData)
       /\ "rsi" \in DOMAIN stateIndicators
  /\ Finished /\ (network # BothFetched \/ argData = <<>>) =>
       /\ StateUntouched
       /\ overlay = "failure"
  /\ ~Finished => StateUntouched /\ overlay = "loading"

\* The quote went through, the candles' fetch came back with an error
\* status, and init has ended with the failure view.
C28_Witness ==
  /\ job = "failed"
  /\ network = <<"GET price", "ok", "json", "GET klines", "notok">>
  /\ overlay = "failure"
  /\ StateUntouched

\* ------------------------------------------------------ the candle adapters

\* The longest provider series tried.
MaxCandles == 3

\* The times a provider reports for its candles: milliseconds, or seconds
\* at CryptoCompare.
RawTimes == {0, 1999, 60000}

\* parseInt(req.query.limit) || 100: any integer but 0.
Limits == {-1, 1, 2, 100}

CandleProviders ==
  {"binance", "coingecko", "cryptocompare", "coincap", "yahoo"}

\* The providers that hand over every field of every candle as a number.
\* A Yahoo quote may also have null for its open or its close, or a close
\* that isNaN() refuses (NaN, undefined).
RawKinds(provider) ==
  IF provider = "yahoo" THEN {"ok", "nullopen", "nullclose", "nanclose"}
  ELSE {"ok"}

\* The j-th candle of a provider's series: its open tells it apart from the
\* other candles of the series.
RawCandle(j, t, kind) ==
  [time  |-> t,
   open  |-> IF kind = "nullopen" THEN Null ELSE Int2Rat(j),
   close |-> IF kind = "nullclose" THEN Null
             ELSE IF kind = "nanclose" THEN NaN ELSE Int2Rat(1)]

RawSeries(provider) ==
  UNION { { [j \in 1..n |-> RawCandle(j, ts[j], kinds[j])] :
              ts \in [1..n -> RawTimes],
              kinds \in [1..n -> RawKinds(provider)] } :
          n \in 0..MaxCandles }

\* A time left as the provider reported it.
SecondsUnconverted(t) == t

\* Math.floor(t / 1000)
Seconds(t) == t \div 1000

\* response.data.map(k => ({time: Math.floor(k[0] / 1000), ...}))
fetchBinanceKlines(data) ==
  [j \in 1..Len(data) |->
     [time |-> Seconds(data[j].time), open |-> data[j].open,
      close |-> data[j].close]]

\* response.data.map(c => ({time: Math.floor(c[0] / 1000), ...}))
geckoCandles(data) ==
  [j \in 1..Len(data) |->
     [time |-> Seconds(data[j].time), open |-> data[j].open,
      close |-> data[j].close]]

\* response.data.Data.Data.map(k => ({time: k.time, ...}))
fetchCryptoCompareKlines(data) ==
  [j \in 1..Len(data) |->
     [time |-> data[j].time, open |-> data[j].open,
      close |-> data[j].close]]

\* response.data.data.slice(-limit).map(k => ({time: Math.floor(k.time /
\* 1000), ...}))
fetchCoinCapKlines(data, limit) ==
  LET last == Slice(data, -limit, Len(data))
  IN  [j \in 1..Len(last) |->
         [time |-> Seconds(last[j].time), open |-> last[j].open,
          close |-> last[j].close]]

\* c.close !== null && c.open !== null && !isNaN(c.close)
yahooKeeps(c) == c.close # Null /\ c.open # Null /\ ~IsNaN(c.close)

\* result.quotes.map(k => ({time: Math.floor(new Date(k.date).getTime() /
\* 1000), ...})).filter(...)
yahooCandles(quotes) ==
  SelectSeq([j \in 1..Len(quotes) |->
               [time |-> Seconds(quotes[j].time), open |-> quotes[j].open,
                close |-> quotes[j].close]],
            yahooKeeps)

\* A provider's series has arrived at its adapter.
InitAdapters ==
  /\ NoRequest
  /\ stateCandles = <<>>
  /\ stateIndicators = NoIndicators
  /\ stateSignals = <<>>
  /\ \E provider \in CandleProviders :
       \E data \in RawSeries(provider) :
         \E limit \in IF provider = "coincap" THEN Limits ELSE {100} :
           argData = [from |-> provider, data |-> data, limit |-> limit]
  /\ argPeriod = 0
  /\ argMultiplier = 0
  /\ out = <<>>
  /\ job = "raw"
  /\ network = <<>>
  /\ fetched = "none"
  /\ overlay = "loading"

\* The adapter turns the series into candles.
Adapt ==
  /\ job = "raw"
  /\ out' = CASE argData.from = "binance" -> fetchBinanceKlines(argData.data)
              [] argData.from = "coingecko" -> geckoCandles(argData.data)
              [] argData.from = "cryptocompare" ->
                   fetchCryptoCompareKlines(argData.data)
              [] argData.from = "coincap" ->
                   fetchCoinCapKlines(argData.data, argData.limit)
              [] argData.from = "yahoo" -> yahooCandles(argData.data)
  /\ job' = "normalized"
  /\ UNCHANGED <<request, yahoo, fetches, stateCandles, stateIndicators,
                 stateSignals, argData, argPeriod, argMultiplier>>

NextAdapters == Adapt

SpecAdapters == InitAdapters /\ [][NextAdapters]_vars

\* ---------------------------------------------------- claims on the adapters

\* C21: every candle an adapter returns has an integer time; for the
\* providers that report milliseconds it is the second the reported
\* millisecond lies in, for CryptoCompare it is the reported time; the
\* returned candles are input candles in the provider's order, each at most
\* once, and no candle is lost at Binance, CoinGecko and CryptoCompare, at
\* CoinCap within the limit, and at Yahoo when its open and close are
\* numbers.
C21_TimesInSecondsInProviderOrder ==
  job = "normalized" =>
    LET raw == argData.data
        from == argData.from
    IN  /\ \E f \in [1..Len(out) -> 1..Len(raw)] :
             /\ \A a \in 1..Len(out) : \A b \in 1..Len(out) :
                  a < b => f[a] < f[b]
             /\ \A m \in 1..Len(out) :
                  /\ out[m].open = raw[f[m]].open
                  /\ out[m].time \in Int
                  /\ IF from = "cryptocompare"
                     THEN out[m].time = raw[f[m]].time
                     ELSE /\ 1000 * out[m].time <= raw[f[m]].time
                          /\ raw[f[m]].time < 1000 * out[m].time + 1000
        /\ from \in {"binance", "coingecko", "cryptocompare"} =>
             Len(out) = Len(raw)
        /\ from = "coincap" /\ argData.limit >= Len(raw) =>
             Len(out) = Len(raw)
        /\ from = "yahoo" =>
             Len(out) = Cardinality({j \in 1..Len(raw) :
                                       /\ raw[j].open \notin {Null, NaN}
                                       /\ raw[j].close \notin {Null, NaN}})

\* Three Yahoo quotes of which the second has no close: two candles come
\* back, the first at second 1 for millisecond 1999.
C21_Witness ==
  /\ job = "normalized"
  /\ argData.from = "yahoo"
  /\ Len(argData.data) = 3
  /\ argData.data[1].time = 1999
  /\ argData.data[2].close = Null
  /\ Len(out) = 2
  /\ out[1].time = 1
  /\ out[2].open = Int2Rat(3)

\* ------------------------------------------------- claims on the responses

\* The request's handler runs once the request has arrived, the clock goes
\* on while a call is open, and an armed timer fires at its deadline.
\* Nothing obliges a provider to answer or to finish a body.
SpecFair ==
  /\ Init
  /\ [][Next]_vars
  /\ WF_vars(Handle)
  /\ WF_vars(Tick)
  /\ WF_vars(TimerFires)

\* C25: every request gets exactly one response: never two are written,
\* and one is written in the end.
C25_ExactlyOneResponse ==
  /\ [](Len(sent) <= 1)
  /\ <>(Len(sent) = 1)

\* --------------------------------------------------------- the Yahoo server

\* How many requests the Yahoo server is followed for.
MaxRequests == 3

\* A client that initYahooFinance never assigned.
NewClientMissing == "null"

\* new YahooFinance({ suppressNotices: ['yahooSurvey'] })
NewClient == "client"

\* res.status(503).json({ error: 'Yahoo Finance not ready' })
NotReady(ep) ==
  [endpoint |-> ep, status |-> 503, error |-> "Yahoo Finance not ready"]

\* res.json({ source: 'yahoo', ... }) and the 500 of the catch block.
YahooResponse(ep, ok) ==
  [endpoint |-> ep, status |-> IF ok THEN 200 ELSE 500,
   error |-> IF ok THEN ""
             ELSE IF ep = "price" THEN "Failed to fetch price"
             ELSE "Failed to fetch klines"]

\* The script has run to its end: the handlers are registered, the import
\* of initYahooFinance is pending, and nothing listens yet.
InitYahoo ==
  /\ NoPage
  /\ server = "yahoo"
  /\ endpoint = "price"
  /\ rawSymbol = NEARUSDT
  /\ rawInterval = Undefined
  /\ pc = "idle"
  /\ symbol = <<>>
  /\ map = NoMap
  /\ interval = ""
  /\ attempts = <<>>
  /\ inflight = {}
  /\ phase = "none"
  /\ timerArmed = FALSE
  /\ elapsed = 0
  /\ sent = <<>>
  /\ yahooFinance = "null"
  /\ startup = "importing"

YahooFixed ==
  <<dashboard, server, rawSymbol, rawInterval, symbol, map, interval,
    attempts, inflight, phase, timerArmed, elapsed>>

\* The import resolves and initYahooFinance assigns the client, or the
\* import or the constructor throws and it rejects.
initYahooFinance ==
  /\ startup = "importing"
  /\ \/ /\ yahooFinance' = NewClient
        /\ startup' = "initialized"
     \/ /\ startup' = "failed"
        /\ UNCHANGED yahooFinance
  /\ UNCHANGED <<YahooFixed, endpoint, pc, sent>>

\* The then callback: app.listen(PORT, ...), which may throw.
listen ==
  /\ startup = "initialized"
  /\ startup' \in {"listening", "failed"}
  /\ UNCHANGED <<YahooFixed, endpoint, pc, sent, yahooFinance>>

\* The catch callback: process.exit(1).
exit ==
  /\ startup = "failed"
  /\ startup' = "exited"
  /\ UNCHANGED <<YahooFixed, endpoint, pc, sent, yahooFinance>>

\* A request arrives at the listening server: the handler answers 503
\* without a client, and calls Yahoo otherwise.
YahooHandle ==
  /\ startup = "listening"
  /\ pc = "idle"
  /\ Len(sent) < MaxRequests
  /\ \E ep \in Endpoints :
       /\ endpoint' = ep
       /\ IF yahooFinance = "null"
          THEN /\ sent' = Append(sent, NotReady(ep))
               /\ UNCHANGED pc
          ELSE /\ pc' = "await"
               /\ UNCHANGED sent
  /\ UNCHANGED <<YahooFixed, yahooFinance, startup>>

\* yahooFinance.quote / chart settles: a usable result is answered with
\* 200, a rejection or an empty result with 500.
YahooSettles ==
  /\ pc = "await"
  /\ \E ok \in BOOLEAN : sent' = Append(sent, YahooResponse(endpoint, ok))
  /\ pc' = "idle"
  /\ UNCHANGED <<YahooFixed, endpoint, yahooFinance, startup>>

NextYahoo ==
  \/ initYahooFinance
  \/ listen
  \/ exit
  \/ YahooHandle
  \/ YahooSettles

SpecYahoo == InitYahoo /\ [][NextYahoo]_vars

\* ---------------------------------------------- claims on the Yahoo server

\* C29: the server listens only with the client assigned; no response is
\* the 503 'Yahoo Finance not ready'; a request is accepted only by the
\* listening server; and once initialization has failed the only step left
\* is the exit, with no request accepted before or after.
C29_ListensOnlyWithClient ==
  /\ [](/\ startup = "listening" => yahooFinance = "client"
        /\ \A k \in 1..Len(sent) : sent[k].status # 503
        /\ (pc = "await" \/ sent # <<>>) => startup = "listening"
        /\ startup \in {"failed", "exited"} => pc = "idle" /\ sent = <<>>)
  /\ [][/\ startup = "failed" => startup' = "exited"
        /\ startup = "exited" => startup' = "exited"]_vars

\* The listening server has answered a request with 200 and one with 500.
C29_Witness ==
  /\ startup = "listening"
  /\ yahooFinance = "client"
  /\ \E k \in 1..Len(sent) : sent[k].status = 200
  /\ \E k \in 1..Len(sent) : sent[k].status = 500

====
